---------------------------- MODULE Spec2Model ----------------------------
(***************************************************************************)
(* Model of MicrosoftCalendarProvider                                      *)
(* (packages/api/src/providers/microsoft-calendar.ts).                     *)
(*                                                                         *)
(* Every public operation is an async function run inside                  *)
(* withErrorHandler.  An async function runs synchronously up to its next  *)
(* await, so an operation is modelled by                                   *)
(*   - one action per operation for the call (it runs the body up to the   *)
(*     first request, or to completion when the body makes no request);    *)
(*   - NetworkResolve / NetworkReject, the Graph client settling the       *)
(*     request in flight, which run the continuation of the body up to the *)
(*     next request or to completion.                                      *)
(* The body of each operation is an operator of the operation's arguments  *)
(* and of the replies received so far; it yields the next thing the body   *)
(* does: Await(request), Return(value) or Throw(error).                    *)
(***************************************************************************)
EXTENDS Integers, Sequences, FiniteSets, TLC

\* ------------------------------------------------------------------ bounds
\* Wall-clock readings range over 0..MaxWall (hours).
MaxWall == 1
\* The provider lists at most MaxCalendars calendars and MaxEvents events.
MaxCalendars == 2
MaxEvents == 2

\* ------------------------------------------------------------ JS sentinels
\* JavaScript's undefined, in string-typed positions.
Undefined == "undefined"

\* ------------------------------------------------------------- identifiers
Procs == {"p1", "p2"}
\* The callers the sequential specification lets run.
Callers == {"p1"}

CalId(n) == <<"cal", n>>
EvtId(n) == <<"evt", n>>
CalendarIds == {CalId(1), CalId(2)}
EventIds == {EvtId(1), EvtId(2)}
AccountIds == {"account-1", "account-2"}
AccessTokens == {"token-A"}

\* --------------------------------------------------------------- Temporal
\* A Temporal.ZonedDateTime is a wall-clock reading in a time zone; its
\* instant is the reading less the zone's UTC offset (whole hours, no DST).
Zones == {"UTC", "America/New_York", "Asia/Tokyo"}

Offset(zone) ==
    CASE zone = "UTC" -> 0
      [] zone = "America/New_York" -> -5
      [] zone = "Asia/Tokyo" -> 9

ZDT(wall, zone) == [wall |-> wall, timeZone |-> zone]
ZonedDateTimes == [wall : 0..MaxWall, timeZone : Zones]

\* Temporal.ZonedDateTime.prototype.toInstant: hours since the epoch.
toInstant(zdt) == zdt.wall - Offset(zdt.timeZone)

\* Temporal.ZonedDateTime.prototype.withTimeZone: same instant, other zone.
withTimeZone(zdt, zone) == ZDT(toInstant(zdt) + Offset(zone), zone)

\* Temporal.Instant.prototype.toString: the ISO 8601 string in UTC ("...Z").
InstantToString(instant) == [iso |-> instant, designator |-> "Z"]

\* ------------------------------------------------- missing collaborators
\* ../constants/calendar, ./colors, ./utils and ./microsoft-calendar/utils are
\* imported by the provider; they are modelled from the specification.

\* CALENDAR_DEFAULTS.MAX_EVENTS_PER_CALENDAR: "a fixed maximum event count".
MAX_EVENTS_PER_CALENDAR == 250

\* assignColor: "given a zero-based index, returns a color from a fixed,
\* deterministic, cyclic palette".
Palette == <<"palette-0", "palette-1", "palette-2">>
assignColor(index) == Palette[(index % Len(Palette)) + 1]

\* calendarPath: "the REST path fragment for a given calendar id".
calendarPath(calendarId) == <<"me", "calendars", calendarId>>

\* eventResponseStatusPath: "Graph's own RSVP action path
\* (accept/decline/tentativelyAccept) from the canonical status".
eventResponseStatusPath(status) ==
    CASE status = "accepted" -> "accept"
      [] status = "declined" -> "decline"
      [] status = "tentative" -> "tentativelyAccept"

\* new ProviderError(error, operation, context).
ProviderError(error, operation, context) ==
    [name |-> "ProviderError", cause |-> error,
     operation |-> operation, context |-> context]

\* parseMicrosoftCalendar: "copies id/name; maps isDefaultCalendar->isDefault,
\* canEdit->!isReadOnly, hexColor->color (falls back to assigned color if
\* absent/empty)".
parseMicrosoftCalendar(calendar, accountId) ==
    [id |-> calendar.id,
     accountId |-> accountId,
     providerId |-> "microsoft",
     name |-> calendar.name,
     color |-> IF calendar.hexColor \in {Undefined, ""}
               THEN assignColor(0) ELSE calendar.hexColor,
     isDefault |-> calendar.isDefaultCalendar,
     isReadOnly |-> ~calendar.canEdit]

\* "converts Graph's dateTime+timeZone pair into a single timezone-aware
\* instant".
parseMicrosoftDate(date) == ZDT(date.dateTime, date.timeZone)
toMicrosoftDate(zdt) == [dateTime |-> zdt.wall, timeZone |-> zdt.timeZone]

\* An expression that throws instead of yielding a value, and the test for
\* it.  The TypeError is the one a member read on undefined throws.
Raise(error) == [thrown |-> error]
Thrown(x) == "thrown" \in DOMAIN x
UndefinedRead ==
    [name |-> "TypeError", message |-> "cannot read properties of undefined"]

\* parseMicrosoftEvent({event, accountId, calendar}).  The dates of a native
\* event without start or end are undefined, and converting them throws.
parseMicrosoftEvent(event, accountId, calendar) ==
    IF {"start", "end"} \subseteq DOMAIN event
    THEN [id |-> event.id,
          calendarId |-> calendar.id,
          accountId |-> accountId,
          providerId |-> "microsoft",
          title |-> event.subject,
          start |-> parseMicrosoftDate(event.start),
          end |-> parseMicrosoftDate(event.end)]
    ELSE Raise(UndefinedRead)

\* toMicrosoftEvent: canonical create/update input to the native shape.  The
\* response status is not part of the native event: Graph records it through
\* the action endpoints.
\* An input without start or end has no dates to convert: it throws.
toMicrosoftEvent(event) ==
    IF {"start", "end"} \subseteq DOMAIN event
    THEN [subject |-> event.title,
          start |-> toMicrosoftDate(event.start),
          end |-> toMicrosoftDate(event.end)]
    ELSE Raise(UndefinedRead)


\* --------------------------------------------------------- canonical inputs
\* A Calendar handed to events/createEvent/updateEvent: only its id is read.
Calendars ==
    [id : CalendarIds, accountId : {"account-1"}, providerId : {"microsoft"}]
CalendarInputs == {[name |-> "Work"]}

ResponseStatuses == {"accepted", "declined", "tentative", "unknown"}
Comments == {Undefined, "Running late"}
\* ResponseToEventInput.
ResponseInputs ==
    [status : ResponseStatuses, comment : Comments, sendUpdate : BOOLEAN]
\* CreateEventInput / UpdateEventInput.  The optional response is a sequence
\* of length 0 (absent) or 1.
\* An input that reached the adapter without its dates.
EventWithoutDates == [title |-> "Standup", response |-> <<>>]
EventInputs ==
    [title : {"Standup"},
     start : {ZDT(0, "UTC")},
     end : {ZDT(MaxWall, "UTC")},
     response : {<<>>} \cup {<<r>> : r \in ResponseInputs}]
    \cup {EventWithoutDates}
CreateEventInputs == {e \in EventInputs : e.response = <<>>}

\* ------------------------------------------------------- provider payloads
HexColors == {Undefined, "", "#0078d4"}
MicrosoftCalendar(n, hexColor) ==
    [id |-> CalId(n), name |-> "Calendar", hexColor |-> hexColor,
     isDefaultCalendar |-> (n = 1), canEdit |-> TRUE]
MicrosoftDates == [dateTime : 0..MaxWall, timeZone : Zones]
MicrosoftEvent(n, start, end) ==
    [id |-> EvtId(n), subject |-> "Standup", start |-> start, end |-> end]
\* More native events than the $top of the request asked for.
OverfullEvents(timeZone) ==
    [i \in 1..(MAX_EVENTS_PER_CALENDAR + 1) |->
        MicrosoftEvent(i, [dateTime |-> 0, timeZone |-> timeZone],
                          [dateTime |-> 0, timeZone |-> timeZone])]
\* A native event the provider returned without its dates.
MicrosoftEventWithoutDates == [id |-> EvtId(1), subject |-> "Standup"]

SeqsUpTo(S, n) == UNION {[1..k -> S] : k \in 0..n}

\* A 2xx body without a "value" member.
MalformedBody == [odataContext |-> "$metadata"]
\* A 2xx response without a body (204 No Content, 202 Accepted).
NoContent == [status |-> 204]

\* What the request rejects with.
GraphErrors == {[name |-> "GraphError", statusCode |-> 401],
                [name |-> "GraphError", statusCode |-> 503]}
\* What calling .map on an undefined response.value throws.
TypeError == [name |-> "TypeError", message |-> "response.value is undefined"]

\* ------------------------------------------------------------ Graph client
\* this.graphClient.api(path): a request under construction.  The token is the
\* one getAccessToken returns, captured by the constructor.
api(this, path) ==
    [token |-> this.accessToken, verb |-> "", path |-> path, select |-> "",
     prefer |-> <<>>, filter |-> <<>>, orderby |-> "", top |-> 0,
     body |-> <<>>]
select(req, fields) == [req EXCEPT !.select = fields]
header(req, value) == [req EXCEPT !.prefer = value]
filter(req, expr) == [req EXCEPT !.filter = expr]
orderby(req, property) == [req EXCEPT !.orderby = property]
top(req, n) == [req EXCEPT !.top = n]
get(req) == [req EXCEPT !.verb = "GET"]
\* The body is an argument: when evaluating it throws, post/patch is never
\* called and the exception propagates.
post(req, body) ==
    IF Thrown(body) THEN body
    ELSE [req EXCEPT !.verb = "POST", !.body = <<body>>]
patch(req, body) ==
    IF Thrown(body) THEN body
    ELSE [req EXCEPT !.verb = "PATCH", !.body = <<body>>]
delete(req) == [req EXCEPT !.verb = "DELETE"]

\* What an async body does next.
Return(value) == [kind |-> "return", value |-> value]
Throw(error) == [kind |-> "throw", error |-> error]
\* await <request expression>: an exception thrown while building the request
\* leaves the body before anything is sent.
Await(request) ==
    IF Thrown(request) THEN Throw(request.thrown)
    ELSE [kind |-> "await", request |-> request]
\* return <mapping expression>, and return <native items>.map(<mapping>).
ReturnMapped(value) ==
    IF Thrown(value) THEN Throw(value.thrown) ELSE Return(value)
ReturnAllMapped(items) ==
    IF \E i \in 1..Len(items) : Thrown(items[i])
    THEN Throw(UndefinedRead)
    ELSE Return(items)

\* The i-th awaited request rejected.
Rejected(replies, i) == Len(replies) >= i /\ ~replies[i].ok

\* -------------------------------------------------------- operation bodies
\* The async arrow function each public method hands to withErrorHandler, as
\* a function of the replies its awaits have received so far.

\* calendars keeping the provider's hexColor as it came, with no assigned
\* color.
calendarsFn_RawColor(this, replies) ==
    IF replies = <<>>
    THEN Await(get(select(api(this, <<"me", "calendars">>),
           "id,name,isDefaultCalendar,canEdit,hexColor,isRemovable,owner,calendarPermissions")))
    ELSE IF Rejected(replies, 1) THEN Throw(replies[1].error)
    ELSE IF "value" \notin DOMAIN replies[1].body THEN Throw(TypeError)
    ELSE LET value == replies[1].body.value
         IN  Return([idx \in 1..Len(value) |->
                 [parseMicrosoftCalendar(value[idx], this.accountId)
                     EXCEPT !.color = value[idx].hexColor]])

\* calendars, lines 47-59.
calendarsFn(this, replies) ==
    IF replies = <<>>
    THEN Await(get(select(api(this, <<"me", "calendars">>),
           "id,name,isDefaultCalendar,canEdit,hexColor,isRemovable,owner,calendarPermissions")))
    ELSE IF Rejected(replies, 1) THEN Throw(replies[1].error)
    ELSE IF "value" \notin DOMAIN replies[1].body THEN Throw(TypeError)
    ELSE LET value == replies[1].body.value
         IN  Return([idx \in 1..Len(value) |->
                 [parseMicrosoftCalendar(value[idx], this.accountId)
                     EXCEPT !.color = assignColor(idx - 1)]])

\* createCalendar, lines 63-72.
createCalendarFn(this, calendarData, replies) ==
    IF replies = <<>>
    THEN Await(post(api(this, <<"me", "calendars">>), calendarData))
    ELSE IF Rejected(replies, 1) THEN Throw(replies[1].error)
    ELSE Return(parseMicrosoftCalendar(replies[1].body, this.accountId))

\* updateCalendar, lines 79-88.
updateCalendarFn(this, calendarId, calendar, replies) ==
    IF replies = <<>>
    THEN Await(patch(api(this, calendarPath(calendarId)), calendar))
    ELSE IF Rejected(replies, 1) THEN Throw(replies[1].error)
    ELSE Return(parseMicrosoftCalendar(replies[1].body, this.accountId))

\* deleteCalendar, lines 92-94.
deleteCalendarFn(this, calendarId, replies) ==
    IF replies = <<>>
    THEN Await(delete(api(this, calendarPath(calendarId))))
    ELSE IF Rejected(replies, 1) THEN Throw(replies[1].error)
    ELSE Return(Undefined)

\* events filtering on the wall-clock readings of timeMin and timeMax, with
\* no conversion to UTC.
eventsFn_LocalTime(this, calendar, timeMin, timeMax, timeZone, replies) ==
    LET startTime == InstantToString(timeMin.wall)
        endTime == InstantToString(timeMax.wall)
    IN  IF replies = <<>>
        THEN Await(get(top(orderby(filter(header(
                 api(this, calendarPath(calendar.id) \o <<"events">>),
                 <<"Prefer", "outlook.timezone", timeZone>>),
                 <<"start/dateTime", "ge", startTime, "and",
                   "end/dateTime", "le", endTime>>),
                 "start/dateTime"),
                 MAX_EVENTS_PER_CALENDAR)))
        ELSE IF Rejected(replies, 1) THEN Throw(replies[1].error)
        ELSE IF "value" \notin DOMAIN replies[1].body THEN Throw(TypeError)
        ELSE LET value == replies[1].body.value
             IN  ReturnAllMapped([i \in 1..Len(value) |->
                     parseMicrosoftEvent(value[i], this.accountId, calendar)])

\* events cutting its result down to the page size it asked for.
eventsFn_Truncate(this, calendar, timeMin, timeMax, timeZone, replies) ==
    LET startTime == InstantToString(toInstant(withTimeZone(timeMin, "UTC")))
        endTime == InstantToString(toInstant(withTimeZone(timeMax, "UTC")))
    IN  IF replies = <<>>
        THEN Await(get(top(orderby(filter(header(
                 api(this, calendarPath(calendar.id) \o <<"events">>),
                 <<"Prefer", "outlook.timezone", timeZone>>),
                 <<"start/dateTime", "ge", startTime, "and",
                   "end/dateTime", "le", endTime>>),
                 "start/dateTime"),
                 MAX_EVENTS_PER_CALENDAR)))
        ELSE IF Rejected(replies, 1) THEN Throw(replies[1].error)
        ELSE IF "value" \notin DOMAIN replies[1].body THEN Throw(TypeError)
        ELSE LET value == replies[1].body.value
                 kept == IF Len(value) > MAX_EVENTS_PER_CALENDAR
                         THEN MAX_EVENTS_PER_CALENDAR ELSE Len(value)
             IN  ReturnAllMapped([i \in 1..kept |->
                     parseMicrosoftEvent(value[i], this.accountId, calendar)])

\* events, lines 103-120.
eventsFn(this, calendar, timeMin, timeMax, timeZone, replies) ==
    LET startTime == InstantToString(toInstant(withTimeZone(timeMin, "UTC")))
        endTime == InstantToString(toInstant(withTimeZone(timeMax, "UTC")))
    IN  IF replies = <<>>
        THEN Await(get(top(orderby(filter(header(
                 api(this, calendarPath(calendar.id) \o <<"events">>),
                 <<"Prefer", "outlook.timezone", timeZone>>),
                 <<"start/dateTime", "ge", startTime, "and",
                   "end/dateTime", "le", endTime>>),
                 "start/dateTime"),
                 MAX_EVENTS_PER_CALENDAR)))
        ELSE IF Rejected(replies, 1) THEN Throw(replies[1].error)
        ELSE IF "value" \notin DOMAIN replies[1].body THEN Throw(TypeError)
        ELSE LET value == replies[1].body.value
             IN  ReturnAllMapped([i \in 1..Len(value) |->
                     parseMicrosoftEvent(value[i], this.accountId, calendar)])

\* createEvent deleting the event it has just created when the response
\* cannot be mapped.
createEventFn_DeleteUnmapped(this, calendar, event, replies) ==
    IF replies = <<>>
    THEN Await(post(api(this, calendarPath(calendar.id) \o <<"events">>),
                    toMicrosoftEvent(event)))
    ELSE IF Rejected(replies, 1) THEN Throw(replies[1].error)
    ELSE IF /\ Len(replies) = 1
            /\ Thrown(parseMicrosoftEvent(replies[1].body, this.accountId,
                                          calendar))
    THEN Await(delete(api(this, calendarPath(calendar.id)
                                \o <<"events", replies[1].body.id>>)))
    ELSE ReturnMapped(parseMicrosoftEvent(replies[1].body, this.accountId,
                                          calendar))

\* createEvent, lines 127-137.
createEventFn(this, calendar, event, replies) ==
    IF replies = <<>>
    THEN Await(post(api(this, calendarPath(calendar.id) \o <<"events">>),
                    toMicrosoftEvent(event)))
    ELSE IF Rejected(replies, 1) THEN Throw(replies[1].error)
    ELSE ReturnMapped(parseMicrosoftEvent(replies[1].body, this.accountId,
                                          calendar))

\* updateEvent with the two calls in the other order: the RSVP action is
\* posted before the event is patched.
updateEventFn_RsvpFirst(this, calendar, eventId, event, replies) ==
    LET rsvp == event.response # <<>> /\ event.response[1].status # "unknown"
        patchReq == patch(api(this, calendarPath(calendar.id)
                                    \o <<"events", eventId>>),
                          toMicrosoftEvent(event))
    IN  IF ~rsvp
        THEN IF replies = <<>> THEN Await(patchReq)
             ELSE IF Rejected(replies, 1) THEN Throw(replies[1].error)
             ELSE ReturnMapped(parseMicrosoftEvent(replies[1].body, this.accountId,
                                             calendar))
        ELSE IF replies = <<>>
        THEN Await(post(api(this, <<"me", "events", eventId,
                         eventResponseStatusPath(event.response[1].status)>>),
                        [comment |-> event.response[1].comment,
                         sendResponse |-> event.response[1].sendUpdate]))
        ELSE IF Len(replies) = 1 THEN Await(patchReq)
        ELSE IF Rejected(replies, 2) THEN Throw(replies[2].error)
        ELSE IF Rejected(replies, 1) THEN Throw(replies[1].error)
        ELSE ReturnMapped(parseMicrosoftEvent(replies[2].body, this.accountId,
                                        calendar))

\* updateEvent undoing the update when the RSVP call fails: a compensating
\* PATCH is issued before the error is rethrown.
updateEventFn_Rollback(this, calendar, eventId, event, replies) ==
    IF replies = <<>>
    THEN Await(patch(api(this, calendarPath(calendar.id)
                               \o <<"events", eventId>>),
                     toMicrosoftEvent(event)))
    ELSE IF Rejected(replies, 1) THEN Throw(replies[1].error)
    ELSE IF /\ Len(replies) = 1
            /\ event.response # <<>>
            /\ event.response[1].status # "unknown"
    THEN Await(post(api(this, <<"me", "events", eventId,
                         eventResponseStatusPath(event.response[1].status)>>),
                    [comment |-> event.response[1].comment,
                     sendResponse |-> event.response[1].sendUpdate]))
    ELSE IF Rejected(replies, 2) /\ Len(replies) = 2
    THEN Await(patch(api(this, calendarPath(calendar.id)
                               \o <<"events", eventId>>),
                     [subject |-> "(previous)"]))
    ELSE IF Rejected(replies, 2) THEN Throw(replies[2].error)
    ELSE ReturnMapped(parseMicrosoftEvent(replies[1].body, this.accountId, calendar))

\* updateEvent testing only that a response is present: status "unknown" is
\* posted as a tentative acceptance.
updateEventFn_RsvpOnUnknown(this, calendar, eventId, event, replies) ==
    IF replies = <<>>
    THEN Await(patch(api(this, calendarPath(calendar.id)
                               \o <<"events", eventId>>),
                     toMicrosoftEvent(event)))
    ELSE IF Rejected(replies, 1) THEN Throw(replies[1].error)
    ELSE IF Len(replies) = 1 /\ event.response # <<>>
    THEN Await(post(api(this, <<"me", "events", eventId,
                         IF event.response[1].status = "unknown"
                         THEN "tentativelyAccept"
                         ELSE eventResponseStatusPath(
                                  event.response[1].status)>>),
                    [comment |-> event.response[1].comment,
                     sendResponse |-> event.response[1].sendUpdate]))
    ELSE IF Rejected(replies, 2) THEN Throw(replies[2].error)
    ELSE ReturnMapped(parseMicrosoftEvent(replies[1].body, this.accountId, calendar))

\* updateEvent posting the RSVP action under the calendar's path and with
\* the input's field name for the notification flag.
updateEventFn_CalendarScopedRsvp(this, calendar, eventId, event, replies) ==
    IF replies = <<>>
    THEN Await(patch(api(this, calendarPath(calendar.id)
                               \o <<"events", eventId>>),
                     toMicrosoftEvent(event)))
    ELSE IF Rejected(replies, 1) THEN Throw(replies[1].error)
    ELSE IF /\ Len(replies) = 1
            /\ event.response # <<>>
            /\ event.response[1].status # "unknown"
    THEN Await(post(api(this, calendarPath(calendar.id)
                         \o <<"events", eventId,
                         eventResponseStatusPath(event.response[1].status)>>),
                    [comment |-> event.response[1].comment,
                     sendUpdate |-> event.response[1].sendUpdate]))
    ELSE IF Rejected(replies, 2) THEN Throw(replies[2].error)
    ELSE ReturnMapped(parseMicrosoftEvent(replies[1].body, this.accountId, calendar))

\* updateEvent returning the event with the response status it has just
\* submitted merged into it.
updateEventFn_ReflectRsvp(this, calendar, eventId, event, replies) ==
    IF replies = <<>>
    THEN Await(patch(api(this, calendarPath(calendar.id)
                               \o <<"events", eventId>>),
                     toMicrosoftEvent(event)))
    ELSE IF Rejected(replies, 1) THEN Throw(replies[1].error)
    ELSE IF /\ Len(replies) = 1
            /\ event.response # <<>>
            /\ event.response[1].status # "unknown"
    THEN Await(post(api(this, <<"me", "events", eventId,
                         eventResponseStatusPath(event.response[1].status)>>),
                    [comment |-> event.response[1].comment,
                     sendResponse |-> event.response[1].sendUpdate]))
    ELSE IF Rejected(replies, 2) THEN Throw(replies[2].error)
    ELSE IF Len(replies) = 2
    THEN Return([status |-> event.response[1].status,
                 event |-> parseMicrosoftEvent(replies[1].body,
                                               this.accountId, calendar)])
    ELSE ReturnMapped(parseMicrosoftEvent(replies[1].body, this.accountId, calendar))

\* updateEvent, lines 153-176.
updateEventFn(this, calendar, eventId, event, replies) ==
    IF replies = <<>>
    THEN \* First, perform the regular event update
         Await(patch(api(this, calendarPath(calendar.id)
                               \o <<"events", eventId>>),
                     toMicrosoftEvent(event)))
    ELSE IF Rejected(replies, 1) THEN Throw(replies[1].error)
    ELSE IF /\ Len(replies) = 1
            /\ event.response # <<>>
            /\ event.response[1].status # "unknown"
    THEN \* Then, handle response status update if present
         Await(post(api(this, <<"me", "events", eventId,
                         eventResponseStatusPath(event.response[1].status)>>),
                    [comment |-> event.response[1].comment,
                     sendResponse |-> event.response[1].sendUpdate]))
    ELSE IF Rejected(replies, 2) THEN Throw(replies[2].error)
    ELSE ReturnMapped(parseMicrosoftEvent(replies[1].body, this.accountId, calendar))

\* deleteEvent trying the request a second time when it is rejected.
deleteEventFn_Retry(this, calendarId, eventId, replies) ==
    IF replies = <<>> \/ (Len(replies) = 1 /\ Rejected(replies, 1))
    THEN Await(delete(api(this, calendarPath(calendarId)
                                \o <<"events", eventId>>)))
    ELSE IF Rejected(replies, Len(replies))
    THEN Throw(replies[Len(replies)].error)
    ELSE Return(Undefined)

\* deleteEvent, lines 186-190.
deleteEventFn(this, calendarId, eventId, replies) ==
    IF replies = <<>>
    THEN Await(delete(api(this, calendarPath(calendarId)
                                \o <<"events", eventId>>)))
    ELSE IF Rejected(replies, 1) THEN Throw(replies[1].error)
    ELSE Return(Undefined)

\* responseToEvent without the "unknown" short-circuit: "unknown" is sent as
\* a tentative acceptance.
responseToEventFn_NoShortCircuit(this, calendarId, eventId, response, replies) ==
    IF replies = <<>>
    THEN Await(post(api(this, <<"me", "events", eventId,
                         IF response.status = "unknown"
                         THEN "tentativelyAccept"
                         ELSE eventResponseStatusPath(response.status)>>),
                    [comment |-> response.comment,
                     sendResponse |-> response.sendUpdate]))
    ELSE IF Rejected(replies, 1) THEN Throw(replies[1].error)
    ELSE Return(Undefined)

\* responseToEvent posting the "accept" action whatever the status.
responseToEventFn_AlwaysAccept(this, calendarId, eventId, response, replies) ==
    IF response.status = "unknown" THEN Return(Undefined)
    ELSE IF replies = <<>>
    THEN Await(post(api(this, <<"me", "events", eventId, "accept">>),
                    [comment |-> response.comment,
                     sendResponse |-> response.sendUpdate]))
    ELSE IF Rejected(replies, 1) THEN Throw(replies[1].error)
    ELSE Return(Undefined)

\* responseToEvent, lines 198-208.
responseToEventFn(this, calendarId, eventId, response, replies) ==
    IF response.status = "unknown" THEN Return(Undefined)
    ELSE IF replies = <<>>
    THEN Await(post(api(this, <<"me", "events", eventId,
                         eventResponseStatusPath(response.status)>>),
                    [comment |-> response.comment,
                     sendResponse |-> response.sendUpdate]))
    ELSE IF Rejected(replies, 1) THEN Throw(replies[1].error)
    ELSE Return(Undefined)

\* ------------------------------------------------------------ error envelope
\* withErrorHandler logging the error and rethrowing it as it is.
withErrorHandler_Rethrow(operation, fn) ==
    CASE fn.kind = "await" -> fn
      [] fn.kind = "return" ->
            [kind |-> "fulfilled", value |-> fn.value, log |-> <<>>]
      [] fn.kind = "throw" ->
            [kind |-> "rejected", error |-> fn.error,
             log |-> <<[message |-> <<"Failed to", operation>>,
                        error |-> fn.error]>>]

\* withErrorHandler rejecting with a ProviderError built around a new Error
\* that only carries a message: the error that was thrown is discarded.
withErrorHandler_DropCause(operation, fn) ==
    CASE fn.kind = "await" -> fn
      [] fn.kind = "return" ->
            [kind |-> "fulfilled", value |-> fn.value, log |-> <<>>]
      [] fn.kind = "throw" ->
            [kind |-> "rejected",
             error |-> ProviderError(
                 [name |-> "Error", message |-> <<"Failed to", operation>>],
                 operation, Undefined),
             log |-> <<[message |-> <<"Failed to", operation>>,
                        error |-> fn.error]>>]

\* withErrorHandler logging the error and not rethrowing it: the promise is
\* fulfilled with an empty default.
withErrorHandler_Swallow(operation, fn) ==
    CASE fn.kind = "await" -> fn
      [] fn.kind = "return" ->
            [kind |-> "fulfilled", value |-> fn.value, log |-> <<>>]
      [] fn.kind = "throw" ->
            [kind |-> "fulfilled", value |-> <<>>,
             log |-> <<[message |-> <<"Failed to", operation>>,
                        error |-> fn.error]>>]

\* withErrorHandler, lines 211-223, applied to what fn() has done so far: a
\* pending await passes through; a return fulfils the promise with the value
\* unchanged; a throw is logged and rejects with a new ProviderError.
withErrorHandler(operation, fn) ==
    CASE fn.kind = "await" -> fn
      [] fn.kind = "return" ->
            [kind |-> "fulfilled", value |-> fn.value, log |-> <<>>]
      [] fn.kind = "throw" ->
            [kind |-> "rejected",
             error |-> ProviderError(fn.error, operation, Undefined),
             log |-> <<[message |-> <<"Failed to", operation>>,
                        error |-> fn.error]>>]

\* ---------------------------------------------------------- public methods
calendars(this, replies) ==
    withErrorHandler("calendars", calendarsFn(this, replies))
createCalendar(this, calendarData, replies) ==
    withErrorHandler("createCalendar",
                     createCalendarFn(this, calendarData, replies))
updateCalendar(this, calendarId, calendar, replies) ==
    withErrorHandler("updateCalendar",
                     updateCalendarFn(this, calendarId, calendar, replies))
deleteCalendar(this, calendarId, replies) ==
    withErrorHandler("deleteCalendar",
                     deleteCalendarFn(this, calendarId, replies))
events(this, calendar, timeMin, timeMax, timeZone, replies) ==
    withErrorHandler("events",
        eventsFn(this, calendar, timeMin, timeMax, timeZone, replies))
createEvent(this, calendar, event, replies) ==
    withErrorHandler("createEvent",
                     createEventFn(this, calendar, event, replies))
updateEvent(this, calendar, eventId, event, replies) ==
    withErrorHandler("updateEvent",
                     updateEventFn(this, calendar, eventId, event, replies))
deleteEvent(this, calendarId, eventId, replies) ==
    withErrorHandler("deleteEvent",
                     deleteEventFn(this, calendarId, eventId, replies))
responseToEvent(this, calendarId, eventId, response, replies) ==
    withErrorHandler("responseToEvent",
        responseToEventFn(this, calendarId, eventId, response, replies))

\* ------------------------------------------------------------------- state
VARIABLES
    adapter,   \* the provider instance: accountId and the captured token
    call,      \* call[p]: the operation caller p invoked, with its arguments
    pc,        \* pc[p]: "idle", "awaiting" (a request in flight) or "settled"
    sent,      \* sent[p]: the requests p's operation has issued, in order
    replies,   \* replies[p]: what the awaited requests settled with, in order
    outcome,   \* outcome[p]: how the promise returned to p settled
    console,   \* the console.error lines, in order
    applied    \* the mutating requests the provider has carried out, in order

vars == <<adapter, call, pc, sent, replies, outcome, console, applied>>

NoCall == [op |-> "none"]
Pending == [kind |-> "pending"]

\* The method call[p] names, run on the replies received so far.
Run(this, c, rs) ==
    CASE c.op = "calendars" -> calendars(this, rs)
      [] c.op = "createCalendar" -> createCalendar(this, c.calendarData, rs)
      [] c.op = "updateCalendar" ->
            updateCalendar(this, c.calendarId, c.calendar, rs)
      [] c.op = "deleteCalendar" -> deleteCalendar(this, c.calendarId, rs)
      [] c.op = "events" ->
            events(this, c.calendar, c.timeMin, c.timeMax, c.timeZone, rs)
      [] c.op = "createEvent" -> createEvent(this, c.calendar, c.event, rs)
      [] c.op = "updateEvent" ->
            updateEvent(this, c.calendar, c.eventId, c.event, rs)
      [] c.op = "deleteEvent" -> deleteEvent(this, c.calendarId, c.eventId, rs)
      [] c.op = "responseToEvent" ->
            responseToEvent(this, c.calendarId, c.eventId, c.response, rs)

\* The continuation replacing the instance's captured token when an
\* operation is rejected.
Advance_RefreshToken(p, c, rs) ==
    LET r == Run(adapter, c, rs)
    IN  /\ call' = [call EXCEPT ![p] = c]
        /\ replies' = [replies EXCEPT ![p] = rs]
        /\ IF r.kind = "await"
           THEN /\ sent' = [sent EXCEPT ![p] = Append(@, r.request)]
                /\ pc' = [pc EXCEPT ![p] = "awaiting"]
                /\ UNCHANGED <<outcome, console, adapter>>
           ELSE /\ pc' = [pc EXCEPT ![p] = "settled"]
                /\ outcome' = [outcome EXCEPT ![p] =
                       IF r.kind = "fulfilled"
                       THEN [kind |-> "fulfilled", value |-> r.value]
                       ELSE [kind |-> "rejected", error |-> r.error]]
                /\ console' = console \o r.log
                /\ adapter' = IF r.kind = "rejected"
                              THEN [adapter EXCEPT !.accessToken = "token-B"]
                              ELSE adapter
                /\ UNCHANGED sent

\* Caller p's operation c runs from its last await (or from the call) to its
\* next await, where it issues a request, or to the end, where its promise
\* settles.
Advance(p, c, rs) ==
    LET r == Run(adapter, c, rs)
    IN  /\ call' = [call EXCEPT ![p] = c]
        /\ replies' = [replies EXCEPT ![p] = rs]
        /\ IF r.kind = "await"
           THEN /\ sent' = [sent EXCEPT ![p] = Append(@, r.request)]
                /\ pc' = [pc EXCEPT ![p] = "awaiting"]
                /\ UNCHANGED <<outcome, console>>
           ELSE /\ pc' = [pc EXCEPT ![p] = "settled"]
                /\ outcome' = [outcome EXCEPT ![p] =
                       IF r.kind = "fulfilled"
                       THEN [kind |-> "fulfilled", value |-> r.value]
                       ELSE [kind |-> "rejected", error |-> r.error]]
                /\ console' = console \o r.log
                /\ UNCHANGED sent
        /\ UNCHANGED adapter

\* The constructor, lines 37-44.
Init ==
    /\ adapter \in [accountId : AccountIds, accessToken : AccessTokens]
    /\ call = [p \in Procs |-> NoCall]
    /\ pc = [p \in Procs |-> "idle"]
    /\ sent = [p \in Procs |-> <<>>]
    /\ replies = [p \in Procs |-> <<>>]
    /\ outcome = [p \in Procs |-> Pending]
    /\ console = <<>>
    /\ applied = <<>>

\* A call runs the method from its start; the provider is not touched yet.
Invoke(p, c) == Advance(p, c, <<>>) /\ UNCHANGED applied

CallCalendars(p) ==
    /\ pc[p] = "idle"
    /\ Invoke(p, [op |-> "calendars"])

CallCreateCalendar(p) ==
    /\ pc[p] = "idle"
    /\ \E calendarData \in CalendarInputs :
            Invoke(p, [op |-> "createCalendar", calendarData |-> calendarData])

CallUpdateCalendar(p) ==
    /\ pc[p] = "idle"
    /\ \E calendarId \in CalendarIds, calendar \in CalendarInputs :
            Invoke(p, [op |-> "updateCalendar", calendarId |-> calendarId,
                       calendar |-> calendar])

CallDeleteCalendar(p) ==
    /\ pc[p] = "idle"
    /\ \E calendarId \in CalendarIds :
            Invoke(p, [op |-> "deleteCalendar", calendarId |-> calendarId])

CallEvents(p) ==
    /\ pc[p] = "idle"
    /\ \E calendar \in Calendars, timeMin \in ZonedDateTimes,
           timeMax \in ZonedDateTimes, timeZone \in Zones :
            Invoke(p, [op |-> "events", calendar |-> calendar,
                       timeMin |-> timeMin, timeMax |-> timeMax,
                       timeZone |-> timeZone])

CallCreateEvent(p) ==
    /\ pc[p] = "idle"
    /\ \E calendar \in Calendars, event \in CreateEventInputs :
            Invoke(p, [op |-> "createEvent", calendar |-> calendar,
                       event |-> event])

CallUpdateEvent(p) ==
    /\ pc[p] = "idle"
    /\ \E calendar \in Calendars, eventId \in EventIds, event \in EventInputs :
            Invoke(p, [op |-> "updateEvent", calendar |-> calendar,
                       eventId |-> eventId, event |-> event])

CallDeleteEvent(p) ==
    /\ pc[p] = "idle"
    /\ \E calendarId \in CalendarIds, eventId \in EventIds :
            Invoke(p, [op |-> "deleteEvent", calendarId |-> calendarId,
                       eventId |-> eventId])

CallResponseToEvent(p) ==
    /\ pc[p] = "idle"
    /\ \E calendarId \in CalendarIds, eventId \in EventIds,
           response \in ResponseInputs :
            Invoke(p, [op |-> "responseToEvent", calendarId |-> calendarId,
                       eventId |-> eventId, response |-> response])

\* The request p's operation is waiting for.
InFlight(p) == sent[p][Len(sent[p])]

\* The 2xx bodies the provider may answer the request in flight with.
ResponseBodies(p) ==
    LET c == call[p]
        req == InFlight(p)
    IN  CASE c.op = "calendars" ->
               {[value |-> [i \in 1..Len(s) |-> MicrosoftCalendar(i, s[i])]] :
                   s \in SeqsUpTo(HexColors, MaxCalendars)}
               \cup {MalformedBody}
          [] c.op \in {"createCalendar", "updateCalendar"} ->
               {MicrosoftCalendar(1, h) : h \in HexColors}
          [] c.op = "events" ->
               {[value |-> [i \in 1..Len(s) |-> MicrosoftEvent(i,
                     [dateTime |-> s[i][1], timeZone |-> c.timeZone],
                     [dateTime |-> s[i][2], timeZone |-> c.timeZone])]] :
                   s \in SeqsUpTo((0..MaxWall) \X (0..MaxWall), MaxEvents)}
               \cup {[value |-> OverfullEvents(c.timeZone)],
                     [value |-> <<MicrosoftEventWithoutDates>>],
                     MalformedBody}
          [] c.op = "createEvent" \/ (c.op = "updateEvent" /\ req.verb = "PATCH") ->
               {MicrosoftEvent(1, start, end) :
                   start \in MicrosoftDates, end \in MicrosoftDates}
               \cup {MicrosoftEventWithoutDates}
          [] OTHER -> {NoContent}

Mutating(req) == req.verb \in {"POST", "PATCH", "DELETE"}

\* The Graph client resolves the request in flight: the provider has carried
\* it out, and the operation continues after its await.
NetworkResolve(p) ==
    /\ pc[p] = "awaiting"
    /\ \E body \in ResponseBodies(p) :
          Advance(p, call[p], Append(replies[p], [ok |-> TRUE, body |-> body]))
    /\ applied' = IF Mutating(InFlight(p))
                  THEN Append(applied, InFlight(p)) ELSE applied

\* The Graph client rejects the request in flight: the provider has not
\* carried it out, and the await throws.
NetworkReject(p) ==
    /\ pc[p] = "awaiting"
    /\ \E error \in GraphErrors :
          Advance(p, call[p],
                  Append(replies[p], [ok |-> FALSE, error |-> error]))
    /\ UNCHANGED applied

Step(p) ==
    \/ CallCalendars(p)
    \/ CallCreateCalendar(p)
    \/ CallUpdateCalendar(p)
    \/ CallDeleteCalendar(p)
    \/ CallEvents(p)
    \/ CallCreateEvent(p)
    \/ CallUpdateEvent(p)
    \/ CallDeleteEvent(p)
    \/ CallResponseToEvent(p)
    \/ NetworkResolve(p)
    \/ NetworkReject(p)

Next == \E p \in Callers : Step(p)

Spec == Init /\ [][Next]_vars

\* Every request in flight is eventually resolved or rejected by the Graph
\* client, and the continuation of the awaiting body then runs.
Fairness ==
    \A p \in Callers : WF_vars(NetworkResolve(p) \/ NetworkReject(p))

SpecLive == Spec /\ Fairness

\* ------------------------------------------------- concurrent invocations
\* Two callers use the same provider instance at once.  Each may make one of
\* the calls below, one per operation and per branch of updateEvent and
\* responseToEvent, and the provider answers from a few of its bodies.
ConcCalls ==
    LET response(status) ==
            [status |-> status, comment |-> Undefined, sendUpdate |-> TRUE]
        calendar(n) ==
            [id |-> CalId(n), accountId |-> "account-1",
             providerId |-> "microsoft"]
        event(r) ==
            [title |-> "Standup", start |-> ZDT(0, "UTC"),
             end |-> ZDT(MaxWall, "UTC"), response |-> r]
    IN  {[op |-> "calendars"],
         [op |-> "createCalendar", calendarData |-> [name |-> "Work"]],
         [op |-> "updateCalendar", calendarId |-> CalId(1),
          calendar |-> [name |-> "Work"]],
         [op |-> "deleteCalendar", calendarId |-> CalId(2)],
         [op |-> "events", calendar |-> calendar(1),
          timeMin |-> ZDT(0, "America/New_York"),
          timeMax |-> ZDT(1, "America/New_York"), timeZone |-> "UTC"],
         [op |-> "events", calendar |-> calendar(2),
          timeMin |-> ZDT(0, "UTC"), timeMax |-> ZDT(1, "UTC"),
          timeZone |-> "Asia/Tokyo"],
         [op |-> "createEvent", calendar |-> calendar(1),
          event |-> event(<<>>)],
         [op |-> "updateEvent", calendar |-> calendar(1),
          eventId |-> EvtId(1), event |-> event(<<>>)],
         [op |-> "updateEvent", calendar |-> calendar(1),
          eventId |-> EvtId(1), event |-> event(<<response("accepted")>>)],
         [op |-> "deleteEvent", calendarId |-> CalId(1),
          eventId |-> EvtId(1)],
         [op |-> "responseToEvent", calendarId |-> CalId(1),
          eventId |-> EvtId(1), response |-> response("declined")],
         [op |-> "responseToEvent", calendarId |-> CalId(1),
          eventId |-> EvtId(1), response |-> response("unknown")]}

ConcBodies(p) ==
    LET c == call[p]
        date(h) == [dateTime |-> h, timeZone |-> "UTC"]
        zoned(h) == [dateTime |-> h, timeZone |-> c.timeZone]
    IN  ResponseBodies(p) \cap
        (CASE c.op = "calendars" ->
                {[value |-> <<>>],
                 [value |-> <<MicrosoftCalendar(1, "#0078d4"),
                              MicrosoftCalendar(2, "")>>],
                 MalformedBody}
           [] c.op \in {"createCalendar", "updateCalendar"} ->
                {MicrosoftCalendar(1, Undefined)}
           [] c.op = "events" ->
                {[value |-> <<MicrosoftEvent(1, zoned(0), zoned(1))>>]}
           [] c.op \in {"createEvent", "updateEvent"} ->
                {MicrosoftEvent(1, date(0), date(1)), NoContent}
           [] OTHER -> {NoContent})

CallConcurrently(p) ==
    /\ pc[p] = "idle"
    /\ \E c \in ConcCalls : Invoke(p, c)

ResolveConcurrently(p) ==
    /\ pc[p] = "awaiting"
    /\ \E body \in ConcBodies(p) :
          Advance(p, call[p], Append(replies[p], [ok |-> TRUE, body |-> body]))
    /\ applied' = IF Mutating(InFlight(p))
                  THEN Append(applied, InFlight(p)) ELSE applied

NextConc ==
    \E p \in Procs :
        \/ CallConcurrently(p)
        \/ ResolveConcurrently(p)
        \/ NetworkReject(p)

SpecConc == Init /\ [][NextConc]_vars

\* ================================================================== claims
RsvpStatuses == {"accepted", "declined", "tentative"}

Called(p, op) == call[p].op = op
Settled(p) == pc[p] = "settled"
\* Some awaited request of p's operation was rejected.
SomeCallFailed(p) == \E i \in 1..Len(replies[p]) : ~replies[p][i].ok
\* The request goes to the event itself / to an RSVP action of the event.
ToEvent(req, calendarId, eventId) ==
    req.path = <<"me", "calendars", calendarId, "events", eventId>>
ToRsvpAction(req, eventId, status) ==
    req.path = <<"me", "events", eventId, eventResponseStatusPath(status)>>
\* updateEvent was called with a response whose status asks for an RSVP.
UpdateWithRsvp(p) ==
    /\ Called(p, "updateEvent")
    /\ call[p].event.response # <<>>
    /\ call[p].event.response[1].status \in RsvpStatuses

\* C1: an updateEvent whose input carries a response with status accepted,
\* declined or tentative issues a PATCH to the event and then a POST to the
\* RSVP-action path, in that order: the POST is issued only once the PATCH has
\* resolved, a failed PATCH is followed by no POST, and a fulfilled call has
\* issued exactly the PATCH and then the POST.
C1_PatchThenRsvp ==
    \A p \in Procs : UpdateWithRsvp(p) =>
        LET c == call[p]
        IN  /\ Len(sent[p]) \in 1..2
            /\ sent[p][1].verb = "PATCH"
            /\ ToEvent(sent[p][1], c.calendar.id, c.eventId)
            /\ Len(sent[p]) = 2 =>
                  /\ sent[p][2].verb = "POST"
                  /\ ToRsvpAction(sent[p][2], c.eventId,
                                  c.event.response[1].status)
                  /\ replies[p][1].ok
            /\ (Len(replies[p]) >= 1 /\ ~replies[p][1].ok) => Len(sent[p]) = 1
            /\ (Len(replies[p]) >= 1 /\ replies[p][1].ok) => Len(sent[p]) = 2
            /\ outcome[p].kind = "fulfilled" => Len(sent[p]) = 2

\* An updateEvent with status accepted has been fulfilled after its PATCH and
\* its POST to the accept action.
C1_Witness ==
    \E p \in Procs :
        /\ UpdateWithRsvp(p)
        /\ call[p].event.response[1].status = "accepted"
        /\ outcome[p].kind = "fulfilled"
        /\ Len(sent[p]) = 2
        /\ Len(replies[p]) = 2

\* C2: when a call of the underlying client fails in any operation, the
\* caller gets one ProviderError that names the operation; the error is not
\* the raw failure and does not wrap another ProviderError.
C2_OneProviderError ==
    \A p \in Procs : SomeCallFailed(p) =>
        /\ Settled(p)
        /\ outcome[p].kind = "rejected"
        /\ outcome[p].error.name = "ProviderError"
        /\ outcome[p].error.operation = call[p].op
        /\ outcome[p].error.cause.name # "ProviderError"

\* A deleteCalendar whose DELETE was rejected has settled.
C2_Witness ==
    \E p \in Procs :
        /\ Called(p, "deleteCalendar")
        /\ SomeCallFailed(p)
        /\ Settled(p)

\* C3: responseToEvent with status "unknown" makes no network call and is
\* fulfilled, whatever the calendar id, event id, comment and sendUpdate.
C3_UnknownIsNoOp ==
    \A p \in Procs :
        (Called(p, "responseToEvent") /\ call[p].response.status = "unknown") =>
            /\ sent[p] = <<>>
            /\ Settled(p)
            /\ outcome[p].kind = "fulfilled"

\* A responseToEvent with status "unknown", a comment and sendUpdate set has
\* been called.
C3_Witness ==
    \E p \in Procs :
        /\ Called(p, "responseToEvent")
        /\ call[p].response =
              [status |-> "unknown", comment |-> "Running late",
               sendUpdate |-> TRUE]
        /\ Settled(p)

\* C4: responseToEvent with status accepted, declined or tentative issues
\* exactly one request, a POST to /me/events/{eventId}/{action}, where the
\* action is what eventResponseStatusPath gives for the status, whatever the
\* other arguments.
C4_OneRsvpPost ==
    \A p \in Procs :
        (Called(p, "responseToEvent")
            /\ call[p].response.status \in RsvpStatuses) =>
            /\ Len(sent[p]) = 1
            /\ sent[p][1].verb = "POST"
            /\ ToRsvpAction(sent[p][1], call[p].eventId,
                            call[p].response.status)

\* A responseToEvent with status declined has been fulfilled after its POST.
C4_Witness ==
    \E p \in Procs :
        /\ Called(p, "responseToEvent")
        /\ call[p].response.status = "declined"
        /\ outcome[p].kind = "fulfilled"
        /\ Len(sent[p]) = 1

\* The PATCH of p's updateEvent resolved and its RSVP call was rejected.
RsvpStepFailed(p) ==
    /\ Called(p, "updateEvent")
    /\ Len(replies[p]) >= 2
    /\ replies[p][1].ok
    /\ ~replies[p][2].ok

\* C5: when the PATCH of updateEvent succeeds and the RSVP call fails, no
\* further request is issued, the update stays among the changes the provider
\* has carried out, and the caller gets the error of the RSVP call.
C5_NoRollback ==
    \A p \in Procs : RsvpStepFailed(p) =>
        /\ Settled(p)
        /\ Len(sent[p]) = 2
        /\ \E i \in 1..Len(applied) : applied[i] = sent[p][1]
        /\ \A i \in 1..Len(applied) :
              ToEvent(applied[i], call[p].calendar.id, call[p].eventId) =>
                  applied[i] = sent[p][1]
        /\ outcome[p].kind = "rejected"
        /\ outcome[p].error.cause = replies[p][2].error

\* An updateEvent has settled after a resolved PATCH and a rejected RSVP call.
C5_Witness == \E p \in Procs : RsvpStepFailed(p) /\ Settled(p)

\* C6: no operation retries: once one of its requests has failed it issues no
\* further request, and it never issues the same request twice.
C6_NoRetry ==
    \A p \in Procs :
        /\ SomeCallFailed(p) =>
              /\ Settled(p)
              /\ Len(sent[p]) = Len(replies[p])
              /\ \A i \in 1..Len(replies[p]) :
                    ~replies[p][i].ok => i = Len(replies[p])
        /\ \A i, j \in 1..Len(sent[p]) : i < j => sent[p][i] # sent[p][j]

\* A deleteEvent whose DELETE was rejected has settled.
C6_Witness ==
    \E p \in Procs :
        /\ Called(p, "deleteEvent")
        /\ SomeCallFailed(p)
        /\ Settled(p)

NoColor(color) == color \in {Undefined, ""}

\* C7: in the list calendars() returns, a calendar for which the provider
\* supplied a non-empty hexColor has that colour, and the colour assigned by
\* listing position appears only on calendars whose hexColor is absent or
\* empty.
C7_NativeColorWins ==
    \A p \in Procs :
        (Called(p, "calendars") /\ outcome[p].kind = "fulfilled") =>
            \A i \in 1..Len(outcome[p].value) :
                LET native == replies[p][1].body.value[i]
                    color == outcome[p].value[i].color
                IN  /\ ~NoColor(native.hexColor) => color = native.hexColor
                    /\ color = assignColor(i - 1) => NoColor(native.hexColor)

UtcHour(zdt) ==
    zdt.wall - (CASE zdt.timeZone = "America/New_York" -> -5
                  [] zdt.timeZone = "Asia/Tokyo" -> 9
                  [] OTHER -> 0)

\* C9: events(calendar, timeMin, timeMax, timeZone) issues exactly one
\* request: a GET on the calendar's events, filtered to start >= timeMin and
\* end <= timeMax with both bounds as UTC instants, asking for times in
\* timeZone, ordered by start time and capped at MAX_EVENTS_PER_CALENDAR.
C9_EventsQuery ==
    \A p \in Procs : Called(p, "events") =>
        LET c == call[p]
        IN  /\ Len(sent[p]) = 1
            /\ sent[p][1].verb = "GET"
            /\ sent[p][1].path = <<"me", "calendars", c.calendar.id, "events">>
            /\ sent[p][1].filter =
                  <<"start/dateTime", "ge",
                    [iso |-> UtcHour(c.timeMin), designator |-> "Z"], "and",
                    "end/dateTime", "le",
                    [iso |-> UtcHour(c.timeMax), designator |-> "Z"]>>
            /\ sent[p][1].prefer = <<"Prefer", "outlook.timezone", c.timeZone>>
            /\ sent[p][1].orderby = "start/dateTime"
            /\ sent[p][1].top = MAX_EVENTS_PER_CALENDAR

\* events has been called with timeMin in New York and timeMax in Tokyo, and
\* its GET has resolved.
C9_Witness ==
    \E p \in Procs :
        /\ Called(p, "events")
        /\ call[p].timeMin = ZDT(0, "America/New_York")
        /\ call[p].timeMax = ZDT(MaxWall, "Asia/Tokyo")
        /\ outcome[p].kind = "fulfilled"
        /\ sent[p][1].filter[3].iso = 5

StartBeforeEnd(event) == toInstant(event.start) <= toInstant(event.end)

\* C10: every canonical event returned by events, createEvent or updateEvent
\* has start <= end, whatever the provider answered.
C10_StartBeforeEnd ==
    \A p \in Procs : outcome[p].kind = "fulfilled" =>
        /\ Called(p, "events") =>
              \A i \in 1..Len(outcome[p].value) :
                  StartBeforeEnd(outcome[p].value[i])
        /\ (Called(p, "createEvent") \/ Called(p, "updateEvent")) =>
              StartBeforeEnd(outcome[p].value)


\* What the last awaited request of p's operation rejected with.
LastRejection(p) == replies[p][Len(replies[p])].error

\* C11: the ProviderError an operation rejects with wraps the very error its
\* body threw: the rejection of the failed request, or the TypeError of a
\* mapping step.
C11_CausePreserved ==
    \A p \in Procs : outcome[p].kind = "rejected" =>
        /\ outcome[p].error.name = "ProviderError"
        /\ IF SomeCallFailed(p)
           THEN outcome[p].error.cause = LastRejection(p)
           ELSE outcome[p].error.cause.name = "TypeError"

\* An updateCalendar has been rejected after Graph answered 503.
C11_Witness ==
    \E p \in Procs :
        /\ Called(p, "updateCalendar")
        /\ outcome[p].kind = "rejected"
        /\ SomeCallFailed(p)
        /\ LastRejection(p).statusCode = 503


\* What operation c issues and how it settles when it runs alone on a
\* provider instance `this` and its requests are answered with rs.
RequestsAlone(this, c, rs) ==
    LET awaits == {k \in 0..Len(rs) :
                      Run(this, c, SubSeq(rs, 1, k)).kind = "await"}
    IN  [i \in 1..Cardinality(awaits) |->
            Run(this, c, SubSeq(rs, 1, i - 1)).request]
OutcomeAlone(this, c, rs) ==
    LET r == Run(this, c, rs)
    IN  CASE r.kind = "await" -> Pending
          [] r.kind = "fulfilled" -> [kind |-> "fulfilled", value |-> r.value]
          [] r.kind = "rejected" -> [kind |-> "rejected", error |-> r.error]

AsAlone(p) ==
    pc[p] # "idle" =>
        /\ sent[p] = RequestsAlone(adapter, call[p], replies[p])
        /\ outcome[p] = OutcomeAlone(adapter, call[p], replies[p])

\* C12: operations running concurrently on one provider instance do not
\* interfere: no step changes the instance's accountId or captured token, and
\* under every interleaving each operation has issued the requests, and has
\* the outcome, that it has when run alone on the same replies.
C12_NoInterference ==
    /\ [](\A p \in Procs : AsAlone(p))
    /\ [][adapter' = adapter]_vars

\* Two operations have run interleaved: the provider carried out p2's request
\* between the PATCH and the RSVP POST of p1's updateEvent, and both settled.
C12_Witness ==
    /\ Settled("p1") /\ Settled("p2")
    /\ Called("p1", "updateEvent")
    /\ Len(sent["p1"]) = 2
    /\ Len(sent["p2"]) = 1
    /\ applied = <<sent["p1"][1], sent["p2"][1], sent["p1"][2]>>


VoidOps == {"deleteCalendar", "deleteEvent", "responseToEvent"}
ListOps == {"calendars", "events"}
\* A canonical Calendar or CalendarEvent, as opposed to a Graph object.
Canonical(v) ==
    /\ {"providerId", "accountId"} \subseteq DOMAIN v
    /\ v.providerId = "microsoft"

\* The promise of p's operation is pending until the operation settles, and
\* then holds either the value the body returned or one ProviderError.
OneOutcome(p) ==
    IF ~Settled(p) THEN outcome[p] = Pending
    ELSE \/ /\ outcome[p].kind = "fulfilled"
            /\ ~SomeCallFailed(p)
            /\ DOMAIN outcome[p] = {"kind", "value"}
            /\ CASE call[p].op \in VoidOps -> outcome[p].value = Undefined
                 [] call[p].op \in ListOps ->
                       \A i \in 1..Len(outcome[p].value) :
                           Canonical(outcome[p].value[i])
                 [] OTHER -> Canonical(outcome[p].value)
         \/ /\ outcome[p].kind = "rejected"
            /\ DOMAIN outcome[p] = {"kind", "error"}
            /\ outcome[p].error.name = "ProviderError"

\* C13: if every request is eventually resolved or rejected, every operation
\* called eventually settles, and it settles once: with a canonical result (no
\* value for the delete and respond operations) or with one ProviderError,
\* which never changes afterwards.
C13_SettlesOnce ==
    /\ \A p \in Procs : (pc[p] = "awaiting") ~> Settled(p)
    /\ [](\A p \in Procs : OneOutcome(p))
    /\ [][\A p \in Procs : Settled(p) =>
             (Settled(p)' /\ outcome'[p] = outcome[p])]_vars

\* An updateEvent has settled after both of its requests were answered.
C13_Witness ==
    \E p \in Procs :
        /\ Called(p, "updateEvent")
        /\ Len(replies[p]) = 2
        /\ Settled(p)


\* The input of p's updateEvent has a response whose status is not "unknown".
RsvpRequested(p) ==
    /\ call[p].event.response # <<>>
    /\ call[p].event.response[1].status # "unknown"

\* C14: updateEvent issues its second request only when the input has a
\* response whose status is not "unknown"; with no response, or with status
\* "unknown", it issues the PATCH and nothing else (and not even the PATCH
\* when the input cannot be mapped to a native event).
C14_RsvpOnlyOnRequest ==
    \A p \in Procs : Called(p, "updateEvent") =>
        /\ Len(sent[p]) >= 2 => RsvpRequested(p)
        /\ ~RsvpRequested(p) =>
              /\ Len(sent[p]) =
                     IF Thrown(toMicrosoftEvent(call[p].event)) THEN 0 ELSE 1
              /\ \A i \in 1..Len(sent[p]) : sent[p][i].verb = "PATCH"
        /\ \A i \in 1..Len(sent[p]) : sent[p][i].verb = "POST" => i = 2

\* An updateEvent whose response has status "unknown" has been fulfilled.
C14_Witness ==
    \E p \in Procs :
        /\ Called(p, "updateEvent")
        /\ call[p].event.response # <<>>
        /\ call[p].event.response[1].status = "unknown"
        /\ outcome[p].kind = "fulfilled"


\* The second step of updateEvent(calendar, eventId, {response}) once its
\* PATCH has resolved, and the first step of
\* responseToEvent(calendarId, eventId, response).
RsvpOfUpdateEvent(calendar, eventId, response) ==
    updateEventFn(adapter, calendar, eventId,
        [title |-> "Standup", start |-> ZDT(0, "UTC"),
         end |-> ZDT(MaxWall, "UTC"), response |-> <<response>>],
        <<[ok |-> TRUE,
           body |-> MicrosoftEvent(1, [dateTime |-> 0, timeZone |-> "UTC"],
                                      [dateTime |-> 0, timeZone |-> "UTC"])]>>)
RsvpOfResponseToEvent(calendarId, eventId, response) ==
    responseToEventFn(adapter, calendarId, eventId, response, <<>>)

\* C15: the RSVP request updateEvent issues for an event id and a response is
\* the request responseToEvent issues for them, in verb, path and body; in
\* both the path is /me/events/{eventId}/{action}, whatever the calendar.
C15_SameRsvpRequest ==
    \A p \in Procs :
        /\ (UpdateWithRsvp(p) /\ Len(sent[p]) = 2) =>
              /\ \A calendarId \in CalendarIds :
                    RsvpOfResponseToEvent(calendarId, call[p].eventId,
                                          call[p].event.response[1])
                        = Await(sent[p][2])
              /\ ToRsvpAction(sent[p][2], call[p].eventId,
                              call[p].event.response[1].status)
        /\ (Called(p, "responseToEvent")
               /\ call[p].response.status \in RsvpStatuses) =>
              /\ \A calendar \in Calendars :
                    RsvpOfUpdateEvent(calendar, call[p].eventId,
                                      call[p].response)
                        = Await(sent[p][1])
              /\ ToRsvpAction(sent[p][1], call[p].eventId,
                              call[p].response.status)

\* An updateEvent on calendar 2 has issued its RSVP request for a tentative
\* response with a comment.
C15_Witness ==
    \E p \in Procs :
        /\ UpdateWithRsvp(p)
        /\ call[p].calendar.id = CalId(2)
        /\ call[p].event.response[1].status = "tentative"
        /\ call[p].event.response[1].comment = "Running late"
        /\ Len(sent[p]) = 2


\* C16: the event a successful updateEvent returns is the mapping of the
\* PATCH response alone, with or without an RSVP call: it has the members of
\* a mapped event and none for the response status just submitted.
C16_ReturnsPatchedEvent ==
    \A p \in Procs :
        (Called(p, "updateEvent") /\ outcome[p].kind = "fulfilled") =>
            /\ outcome[p].value =
                   parseMicrosoftEvent(replies[p][1].body, adapter.accountId,
                                       call[p].calendar)
            /\ sent[p][1].verb = "PATCH"
            /\ DOMAIN outcome[p].value =
                   {"id", "calendarId", "accountId", "providerId", "title",
                    "start", "end"}

\* An updateEvent that declined the invitation has returned, both of its
\* calls resolved.
C16_Witness ==
    \E p \in Procs :
        /\ UpdateWithRsvp(p)
        /\ call[p].event.response[1].status = "declined"
        /\ outcome[p].kind = "fulfilled"
        /\ Len(replies[p]) = 2


\* p's createEvent or updateEvent was handed an input that toMicrosoftEvent
\* cannot map.
InputMappingFails(p) ==
    /\ call[p].op \in {"createEvent", "updateEvent"}
    /\ Thrown(toMicrosoftEvent(call[p].event))
\* Every request of p's operation resolved, and the response to be mapped to
\* the canonical shape cannot be.
ResponseMappingFails(p) ==
    /\ Settled(p)
    /\ replies[p] # <<>>
    /\ ~SomeCallFailed(p)
    /\ CASE call[p].op \in {"createEvent", "updateEvent"} ->
              Thrown(parseMicrosoftEvent(replies[p][1].body,
                                         adapter.accountId, call[p].calendar))
         [] call[p].op = "events" ->
              \/ "value" \notin DOMAIN replies[p][1].body
              \/ \E i \in 1..Len(replies[p][1].body.value) :
                    Thrown(parseMicrosoftEvent(replies[p][1].body.value[i],
                               adapter.accountId, call[p].calendar))
         [] call[p].op = "calendars" ->
              "value" \notin DOMAIN replies[p][1].body
         [] OTHER -> FALSE
\* p's operation was rejected with one ProviderError that names it and wraps
\* a TypeError, logged as it was thrown.
RejectedWithTypeError(p) ==
    /\ Settled(p)
    /\ outcome[p].kind = "rejected"
    /\ outcome[p].error.name = "ProviderError"
    /\ outcome[p].error.operation = call[p].op
    /\ outcome[p].error.cause.name = "TypeError"
    /\ Len(console) >= 1
    /\ console[Len(console)].error = outcome[p].error.cause

\* C17: an exception of a mapping step is surfaced as one ProviderError that
\* names the operation; when toMicrosoftEvent throws in createEvent or
\* updateEvent no request has been sent; when the mapping of a response
\* throws, the operation has sent its ordinary requests and nothing after
\* them, and the changes the provider carried out for it stay carried out.
C17_MappingFailure ==
    \A p \in Procs :
        /\ InputMappingFails(p) =>
              /\ sent[p] = <<>>
              /\ replies[p] = <<>>
              /\ RejectedWithTypeError(p)
        /\ ResponseMappingFails(p) =>
              /\ RejectedWithTypeError(p)
              /\ Len(sent[p]) = IF UpdateWithRsvp(p) THEN 2 ELSE 1
              /\ Len(replies[p]) = Len(sent[p])
              /\ \A i \in 1..Len(sent[p]) :
                    /\ sent[p][i].verb # "DELETE"
                    /\ Mutating(sent[p][i]) =>
                          \E j \in 1..Len(applied) : applied[j] = sent[p][i]

\* An updateEvent with an RSVP has been rejected because its PATCH response
\* could not be mapped, after both of its requests were carried out.
C17_Witness ==
    \E p \in Procs :
        /\ UpdateWithRsvp(p)
        /\ ResponseMappingFails(p)
        /\ Len(applied) >= 2


\* The native items of the response p's listing operation received.
NativeItems(p) == replies[p][1].body.value

\* C18: the list calendars and events return has one canonical item for each
\* native item of the response, at the same position: the lengths are equal
\* and the i-th result is the mapping of the i-th native item, also when the
\* provider returned more events than the page size or returned them out of
\* start order.
C18_OnePerNativeItem ==
    \A p \in Procs :
        (call[p].op \in ListOps /\ outcome[p].kind = "fulfilled") =>
            /\ Len(outcome[p].value) = Len(NativeItems(p))
            /\ \A i \in 1..Len(NativeItems(p)) :
                  /\ outcome[p].value[i].id = NativeItems(p)[i].id
                  /\ Called(p, "calendars") =>
                        outcome[p].value[i].name = NativeItems(p)[i].name
                  /\ Called(p, "events") =>
                        outcome[p].value[i] =
                            parseMicrosoftEvent(NativeItems(p)[i],
                                adapter.accountId, call[p].calendar)

\* An events call has returned more events than MAX_EVENTS_PER_CALENDAR.
C18_Witness ==
    \E p \in Procs :
        /\ Called(p, "events")
        /\ outcome[p].kind = "fulfilled"
        /\ Len(outcome[p].value) > MAX_EVENTS_PER_CALENDAR

=============================================================================
